---- MODULE Spec2Model ----
(***************************************************************************)
(* Price-optimization control loop of droidrun_mobile_agent.py:            *)
(* process_product_page_loop, smart_scroll_and_find_cheaper, the screen    *)
(* inspector check_out_of_stock, and around them main and the cart         *)
(* finalizer add_to_cart_ui_automator.  The device screen and the oracle   *)
(* are the environment: what a tap or a reload leads to, and what the      *)
(* oracle answers, are drawn from bounded sets.  The screen's title,       *)
(* price, error indicator and stock state stay as they are between two     *)
(* navigations (a delivered tap, a reload).                                *)
(***************************************************************************)
EXTENDS Integers, Sequences, FiniteSets, TLC

\* ------------------------------------------------------------------ bounds
MaxPrice == 2
MaxCands == 2
MaxLen == 5

\* ------------------------------------------------------- program constants
max_iterations == 3
max_scrolls == 15
NumStockIndicators == 7
NumCartButtons == 5
NumGoToCartTexts == 6
NumAddToCartTexts == 10

\* Python's None for an optional price (GLOBAL_LOWEST_PRICE = None).
NoPrice == 0 - 1

\* The exit code of a process that has not ended.
NoExit == 0 - 1

Prices == 1..MaxPrice
\* two product titles as extract_product_title_from_page may return them
Titles == {"A", "B"}

VARIABLES
    GLOBAL_LOWEST_PRICE,   \* NoPrice or a number
    PRICE_CHECK_HISTORY,   \* sequence of numbers
    VISITED_PRODUCTS,      \* set of fingerprints <<title, price>>
    iteration,             \* loop counter of process_product_page_loop
    current_price,
    pc,                    \* position in process_product_page_loop
    screen,                \* what the device shows
    scroll_num,            \* loop counter of smart_scroll_and_find_cheaper
    ss_price,              \* smart_scroll_and_find_cheaper's current_price argument
    ss_found,              \* its result: found
    ss_new_price,          \* its result: price
    ss_last,               \* what its last swipe did: "none", "moved", "same", "raise"
    ss_products,           \* the candidate list its last capture yielded
    ss_tap,                \* position in that list of the candidate tapped (0: none)
    ss_captured,           \* history: the steps of the search that called capture_screenshot
    ss_swipes,             \* history: the number of swipes the search has made
    outcome,               \* "none", "SUCCESS" or "FAILURE"
    ret_price,             \* the price process_product_page_loop returns
    exit_site,             \* which return statement was taken
    min_seen,              \* history: least price get_current_price_from_page has read
    first_price,           \* history: the first screen's price as read
    first_branch,          \* history: the branch the first iteration took
    min_normal,            \* history: least price read on a normal-branch screen
    err_ok,                \* history: error check negative since last navigation
    stock_ok,              \* history: stock check negative since last navigation
    final_passes,          \* history: number of final reload passes started
    logging,               \* history: whether steps is kept in this run
    steps,                 \* history: what each branch did, in order
    tap_calls,             \* history: the tap calls of the last search hit, or of the last
                           \* step taken with a text in GLOBAL_LOWEST_PRICE, in order
    stock_in,              \* check_out_of_stock: the device's lookup answers
    stock_out,             \* check_out_of_stock: its result ("none" before the call)
    parse_text,            \* the text handed to the two price parsers
    parse_out,             \* their results (ParseIdleOut before the calls)
    main_pc,               \* position in main and add_to_cart_ui_automator
    main_site,             \* which return or sys.exit statement ended the program
    exit_code,             \* the process's exit code (NoExit while it runs)
    cart_taps,             \* the cart taps add_to_cart_ui_automator has made, in order
    cleanups               \* number of calls of cleanup_screenshots

loopVars == <<GLOBAL_LOWEST_PRICE, PRICE_CHECK_HISTORY, VISITED_PRODUCTS, iteration,
              current_price, pc, screen, outcome, ret_price, exit_site, min_seen,
              first_price, first_branch, min_normal, err_ok, stock_ok, final_passes,
              logging, steps, tap_calls>>
stockVars == <<stock_in, stock_out>>
parseVars == <<parse_text, parse_out>>
mainVars == <<main_pc, main_site, exit_code, cart_taps, cleanups>>
vars == <<loopVars, scroll_num, ss_price, ss_found, ss_new_price, ss_last, ss_products,
          ss_tap, ss_captured, ss_swipes, stockVars, parseVars, mainVars>>

\* ------------------------------------------------------ check_out_of_stock
\* The device's answers: the set of stock indicators whose lookup returned
\* true (a lookup that raises counts as not found, lines 532-536), and the
\* answer of each purchase-button lookup in list order.
ButtonAnswers == {"present", "absent", "raise"}
StockInputs == [found : SUBSET (1..NumStockIndicators),
                buttons : [1..NumCartButtons -> ButtonAnswers]]

NoButtonFound(buttons, i) == FALSE

\* The button loop sits inside one try: the first lookup that raises ends it.
RECURSIVE ButtonFound(_, _)
ButtonFound(buttons, i) ==
    IF i > NumCartButtons THEN FALSE
    ELSE IF buttons[i] = "present" THEN TRUE
    ELSE IF buttons[i] = "raise" THEN FALSE
    ELSE ButtonFound(buttons, i + 1)

SingleIndicator_check_out_of_stock(inp) ==
    LET out_of_stock_count == Cardinality(inp.found) IN
    IF out_of_stock_count >= 1 THEN TRUE
    ELSE IF ButtonFound(inp.buttons, 1) THEN FALSE
    ELSE out_of_stock_count > 0

TwoOnly_check_out_of_stock(inp) ==
    LET out_of_stock_count == Cardinality(inp.found) IN
    IF out_of_stock_count >= 2 THEN TRUE
    ELSE IF ButtonFound(inp.buttons, 1) THEN FALSE
    ELSE FALSE

check_out_of_stock(inp) ==
    LET out_of_stock_count == Cardinality(inp.found) IN
    IF out_of_stock_count >= 2 THEN TRUE
    ELSE IF ButtonFound(inp.buttons, 1) THEN FALSE
    ELSE out_of_stock_count > 0

\* lines 611-613: the branch an iteration takes on the answer, on a page
\* without an error indicator
BranchOnStock(is_out_of_stock) == IF is_out_of_stock = "True" THEN "oos" ELSE "normal"

StockInit ==
    /\ stock_in \in StockInputs
    /\ stock_out = "none"

ApplyCheckOutOfStock ==
    /\ stock_out = "none"
    /\ stock_out' = IF check_out_of_stock(stock_in) THEN "True" ELSE "False"
    /\ UNCHANGED stock_in

\* ----------------------------------------------------------- environment
\* A screen as the Screen Inspector reads it: extract_product_title_from_page,
\* get_current_price_from_page (NoPrice when no price is detected),
\* check_page_errors and check_out_of_stock.
StockAnswers == {check_out_of_stock(inp) : inp \in StockInputs}
Screens == [title : Titles, price : Prices \cup {NoPrice}, err : BOOLEAN,
            oos : StockAnswers]

\* A candidate of the vision oracle.
Cand == [price : Prices]
CandLists == UNION {[1..n -> Cand] : n \in 0..MaxCands}
\* ok = FALSE stands for every failure of the oracle call (an exception, text
\* that is not JSON, JSON of the wrong shape).
OracleAnswers == [ok : BOOLEAN, products : CandLists]

\* ------------------------------------------------------------- helpers
\* Python truthiness of an optional number: None and 0 are false.
Truthy(p) == p # NoPrice /\ p # 0

OrElseDefault(p, d) == d

\* "GLOBAL_LOWEST_PRICE if GLOBAL_LOWEST_PRICE else d"
OrElse(p, d) == IF Truthy(p) THEN p ELSE d

LowerWhenSet(glp, p) == IF glp # NoPrice /\ p < glp THEN p ELSE glp

OverwriteLowest(glp, p) == p

\* "if GLOBAL_LOWEST_PRICE is None or p < GLOBAL_LOWEST_PRICE: GLOBAL_LOWEST_PRICE = p"
UpdateLowest(glp, p) == IF glp = NoPrice \/ p < glp THEN p ELSE glp

\* cheaper_products.sort(key=price); cheaper_products[0]: the first candidate of
\* minimum price (the sort is stable).
RECURSIVE CheapestFrom(_, _, _)
CheapestFrom(list, i, best) ==
    IF i > Len(list) THEN best
    ELSE CheapestFrom(list, i + 1, IF list[i].price < list[best].price THEN i ELSE best)

LastIndex(list) == Len(list)

\* the position in the oracle's list of the candidate that the sort puts first
CheapestIndex(list) == CheapestFrom(list, 2, 1)

Cheapest(list) == list[CheapestIndex(list)]

\* analyze_screenshot_for_cheaper_products: any failure yields []; with a
\* nonempty answer the savings percentage divides by current_price, so a
\* current_price of 0 raises and yields [] too.
analyze_screenshot_for_cheaper_products(answer, price) ==
    IF ~answer.ok THEN << >>
    ELSE IF answer.products # << >> /\ price = 0 THEN << >>
    ELSE answer.products

\* ------------------------ extract_price_from_text, extract_price_value
\* Text is a sequence of characters.  "," stands for every character the
\* parsers delete one by one (',' and the rupee sign).
Digits == {"0", "1"}
Chars == Digits \cup {".", ",", "R", "s", " "}
DigitValue == [c \in Digits |-> IF c = "0" THEN 0 ELSE 1]

TextsOfLength(n) == [1..n -> Chars]

\* the texts of at most max characters
Texts(max) == UNION {TextsOfLength(n) : n \in 0..max}

StartsWith(s, old) == Len(s) >= Len(old) /\ SubSeq(s, 1, Len(old)) = old

\* str.replace(old, ''): every occurrence, left to right, without overlap
RECURSIVE Replace(_, _)
Replace(s, old) ==
    IF s = << >> THEN << >>
    ELSE IF StartsWith(s, old) THEN Replace(SubSeq(s, Len(old) + 1, Len(s)), old)
    ELSE <<Head(s)>> \o Replace(Tail(s), old)

\* .replace('Rs', '').replace(',', '').replace('Rs.', ''), in this order
Cleaned(s) == Replace(Replace(Replace(s, <<"R", "s">>), <<",">>), <<"R", "s", ".">>)

\* str.strip()
RECURSIVE Strip(_)
Strip(s) ==
    IF s = << >> THEN s
    ELSE IF Head(s) = " " THEN Strip(Tail(s))
    ELSE IF s[Len(s)] = " " THEN Strip(SubSeq(s, 1, Len(s) - 1))
    ELSE s

\* position of the first character of s that is in set, 0 if there is none
RECURSIVE FirstIn(_, _, _)
FirstIn(s, set, i) ==
    IF i > Len(s) THEN 0
    ELSE IF s[i] \in set THEN i
    ELSE FirstIn(s, set, i + 1)

\* end of the longest run of characters of set that starts at position i
RECURSIVE RunEnd(_, _, _)
RunEnd(s, set, i) ==
    IF i + 1 <= Len(s) /\ s[i + 1] \in set THEN RunEnd(s, set, i + 1) ELSE i

\* re.search(r'(\d+(?:\.\d{1,2})?)', s): the first run of digits, with a
\* point and one or two digits after it when they follow; << >> for no match
DecimalToken(s) ==
    LET i == FirstIn(s, Digits, 1)
        j == RunEnd(s, Digits, i)
        fraction == j + 2 <= Len(s) /\ s[j + 1] = "." /\ s[j + 2] \in Digits
        last == IF ~fraction THEN j
                ELSE IF j + 3 <= Len(s) /\ s[j + 3] \in Digits THEN j + 3
                ELSE j + 2
    IN  IF i = 0 THEN << >> ELSE SubSeq(s, i, last)

\* re.search(r'[\d.]+', s): the first run of digits and points
DigitsAndPointsToken(s) ==
    LET i == FirstIn(s, Digits \cup {"."}, 1)
    IN  IF i = 0 THEN << >> ELSE SubSeq(s, i, RunEnd(s, Digits \cup {"."}, i))

RECURSIVE IntegerOf(_)
IntegerOf(ds) ==
    IF ds = << >> THEN 0
    ELSE 10 * IntegerOf(SubSeq(ds, 1, Len(ds) - 1)) + DigitValue[ds[Len(ds)]]

RECURSIVE WithoutTrailingZeros(_)
WithoutTrailingZeros(ds) ==
    IF ds # << >> /\ ds[Len(ds)] = "0"
    THEN WithoutTrailingZeros(SubSeq(ds, 1, Len(ds) - 1))
    ELSE ds

\* The parsers' results: a number n / 10^k (k least), None, or +infinity
Number(n, k) == [kind |-> "number", n |-> n, k |-> k]
None == [kind |-> "None", n |-> 0, k |-> 0]
Infinity == [kind |-> "inf", n |-> 0, k |-> 0]

\* float(token) of a token of digits and points: ValueError (error) unless
\* it has a digit and at most one point
float(token, error) ==
    LET points == {i \in 1..Len(token) : token[i] = "."}
        point == IF points = {} THEN Len(token) + 1 ELSE CHOOSE i \in points : TRUE
        whole == SubSeq(token, 1, point - 1)
        fraction == WithoutTrailingZeros(SubSeq(token, point + 1, Len(token)))
    IN  IF Cardinality(points) > 1 \/ Len(token) = Cardinality(points) THEN error
        ELSE Number(IntegerOf(whole \o fraction), Len(fraction))

extract_price_from_text(text) ==
    IF text = << >> THEN None
    ELSE LET match == DecimalToken(Strip(Cleaned(text)))
         IN  IF match = << >> THEN None ELSE float(match, None)

extract_price_value(price_str) ==
    IF price_str = << >> THEN Infinity
    ELSE LET match == DigitsAndPointsToken(Cleaned(price_str))
         IN  IF match = << >> THEN Infinity ELSE float(match, Infinity)

ParseIdleOut == [from_text |-> None, value |-> None, done |-> FALSE]

ParseIdle ==
    /\ parse_text = << >>
    /\ parse_out = ParseIdleOut

ParseInit ==
    /\ parse_text \in Texts(MaxLen)
    /\ parse_out = ParseIdleOut

ApplyPriceParsers ==
    /\ ~parse_out.done
    /\ parse_out' = [from_text |-> extract_price_from_text(parse_text),
                     value |-> extract_price_value(parse_text),
                     done |-> TRUE]
    /\ UNCHANGED parse_text

\* ---------------------------------------------------------------- Init
LoopInit ==
    /\ GLOBAL_LOWEST_PRICE = NoPrice
    /\ PRICE_CHECK_HISTORY = << >>
    /\ VISITED_PRODUCTS = {}
    /\ iteration = 0
    /\ current_price = NoPrice
    /\ pc = "loop"
    /\ screen \in Screens
    /\ outcome = "none"
    /\ ret_price = NoPrice
    /\ exit_site = "none"
    /\ min_seen = NoPrice
    /\ first_price = NoPrice
    /\ first_branch = "none"
    /\ min_normal = NoPrice
    /\ err_ok = FALSE
    /\ stock_ok = FALSE
    /\ final_passes = 0
    /\ logging = FALSE
    /\ steps = << >>
    /\ tap_calls = << >>

ScrollIdleInit ==
    /\ scroll_num = 0
    /\ ss_price = NoPrice
    /\ ss_found = FALSE
    /\ ss_new_price = NoPrice
    /\ ss_last = "none"
    /\ ss_products = << >>
    /\ ss_tap = 0
    /\ ss_captured = {}
    /\ ss_swipes = 0

StockIdle ==
    /\ stock_in = [found |-> {}, buttons |-> [i \in 1..NumCartButtons |-> "absent"]]
    /\ stock_out = "none"

\* The loop entered from add_to_cart_ui_automator, the program still running.
MainIdle ==
    /\ main_pc = "loop"
    /\ main_site = "none"
    /\ exit_code = NoExit
    /\ cart_taps = << >>
    /\ cleanups = 0

Init == LoopInit /\ ScrollIdleInit /\ StockIdle /\ MainIdle /\ ParseIdle

\* ------------------------------------------------------- action fragments
Globals == <<GLOBAL_LOWEST_PRICE, PRICE_CHECK_HISTORY, VISITED_PRODUCTS>>
History == <<min_seen, first_price, first_branch, min_normal, final_passes>>
logVars == <<logging, steps, tap_calls>>
scrollVars == <<scroll_num, ss_price, ss_found, ss_new_price, ss_last, ss_products,
                ss_tap, ss_captured, ss_swipes>>

ReturnFailure(ok, price, site) ==
    /\ pc' = "done"
    /\ outcome' = "FAILURE"
    /\ ret_price' = price
    /\ exit_site' = site

\* return success, price
Return(ok, price, site) ==
    /\ pc' = "done"
    /\ outcome' = IF ok THEN "SUCCESS" ELSE "FAILURE"
    /\ ret_price' = price
    /\ exit_site' = site

ContinueInPlace ==
    /\ pc' = pc
    /\ UNCHANGED <<outcome, ret_price, exit_site>>

\* "continue": back to the while test
Continue ==
    /\ pc' = "loop"
    /\ UNCHANGED <<outcome, ret_price, exit_site>>

\* A delivered tap or a reload shows screen s; nothing has been checked on it.
Navigated(s, errChecked, stockChecked) ==
    /\ screen' = s
    /\ err_ok' = (errChecked /\ ~s.err)
    /\ stock_ok' = (stockChecked /\ ~s.oos)

\* The screen stays; the checks made on it are recorded.
Checked(errNegative, stockNegative) ==
    /\ UNCHANGED screen
    /\ err_ok' = errNegative
    /\ stock_ok' = stockNegative

\* history: a price that get_current_price_from_page returned
Seen(least, read) == IF read = NoPrice THEN least ELSE UpdateLowest(least, read)

\* history: what a branch did: "_tap" a search or an oracle answer tapped a
\* candidate, "_reload" the page was reloaded (KEYCODE_F5), "_stop" the loop
\* returned FAILURE, "_ok" it returned SUCCESS
LogTaps(step, taps) ==
    /\ steps' = IF logging THEN Append(steps, step) ELSE steps
    /\ tap_calls' = taps
    /\ UNCHANGED logging

Log(step) ==
    /\ steps' = IF logging THEN Append(steps, step) ELSE steps
    /\ UNCHANGED <<logging, tap_calls>>

TapSteps == {"err_tap", "oos_oracle_tap", "oos_tap", "normal_tap", "rv_err_tap",
             "rv_oos_tap", "final_oos_tap", "final_err_tap"}
ReloadSteps == {"normal_reload", "final_reload"}
Taps == Cardinality({i \in DOMAIN steps : steps[i] \in TapSteps})
Reloads == Cardinality({i \in DOMAIN steps : steps[i] \in ReloadSteps})

\* history: the branch an iteration takes, kept for the first iteration
Branch(b) == IF iteration = 1 THEN b ELSE first_branch

\* ------------------------------------- smart_scroll_and_find_cheaper
CaptureEveryStep(n) == TRUE

\* line 335: "scroll_num % 2 == 0 or scroll_num == 0"
CaptureStep(n) == n % 2 = 0 \/ n = 0

AnyProduct(products, price) == products # << >>

\* lines 346-350: a nonempty list whose cheapest price is below best_price
IsHit(products, price) == products # << >> /\ Cheapest(products).price < price

\* the prices a capture can make the search return with
HitPrices(price) ==
    {Cheapest(analyze_screenshot_for_cheaper_products(answer, price)).price :
        answer \in {a \in OracleAnswers :
                        IsHit(analyze_screenshot_for_cheaper_products(a, price), price)}}

\* The whole call at once: the results the for loop can end with from step n
\* on.  A capture step can end it with a hit; a swipe ends it with
\* (False, price) when the hash is unchanged or the swipe raises, and so does
\* the last step; otherwise the next step follows.
RECURSIVE ScrollResultsFrom(_, _, _)
ScrollResultsFrom(n, price, hits) ==
    IF n >= max_scrolls THEN {[found |-> FALSE, price |-> price]}
    ELSE (IF CaptureStep(n)
          THEN {[found |-> TRUE, price |-> best_price] : best_price \in hits}
          ELSE {})
         \cup {[found |-> FALSE, price |-> price]}
         \cup ScrollResultsFrom(n + 1, price, hits)

\* the results of a call, for each price it is called with (a price read
\* from a screen, or the placeholder 0)
ScrollResults ==
    [price \in 0..MaxPrice |-> ScrollResultsFrom(0, price, HitPrices(price))]

smart_scroll_and_find_cheaper(price) == ScrollResults[price]

ScrollKeepsLowest(glp, r) == glp

\* GLOBAL_LOWEST_PRICE after a call that began with glp and returned r
\* (lines 367-368 and 382-383)
AfterScroll(glp, r) == IF r.found THEN UpdateLowest(glp, r.price) ELSE glp

\* The same call step by step: one pass of "for scroll_num in
\* range(max_scrolls)".  On an even step a screenshot is taken and the oracle
\* asked; a cheapest candidate below the price passed in is tapped and the
\* call returns (True, its price).
ScrollReturn(found, price) ==
    /\ pc' = "ret"
    /\ ss_found' = found
    /\ ss_new_price' = price
    /\ UNCHANGED <<scroll_num, ss_price>>

\* lines 316-324 and 420-424: device.info raises before the for loop; the
\* outer handler returns (False, current_price)
ScrollEntryRaise ==
    /\ pc = "ss"
    /\ scroll_num = 0
    /\ ss_last = "none"
    /\ ScrollReturn(FALSE, ss_price)
    /\ UNCHANGED <<Globals, iteration, current_price, screen, err_ok, stock_ok,
                   outcome, ret_price, exit_site, History, logVars, ss_last, ss_products,
                   ss_tap, ss_captured, ss_swipes, stockVars, parseVars, mainVars>>

\* device.click either returns or raises
ClickResults == {"ok", "raise"}

\* lines 132-137: execute_adb_command returns (returncode == 0, stdout), or
\* (False, text) when run raises; it never raises, and the callers of
\* lines 379 and 721 drop its result
AdbTapResults == {"ok", "failed"}

\* lines 362-390: device.click, and the adb tap of the handler when it raised
SearchTap(click, adb) ==
    IF click = "ok" THEN <<"search_click">>
    ELSE IF adb = "ok" THEN <<"search_click_raised", "search_adb">>
    ELSE <<"search_click_raised", "search_adb_failed">>

\* the device received a tap
TapDelivered(click, adb) == click = "ok" \/ adb = "ok"

\* lines 335-390: the tap is device.click, or the adb tap of the same point
\* when click raises; both record the price and return
ScrollHit ==
    /\ pc = "ss"
    /\ CaptureStep(scroll_num)
    /\ \E answer \in OracleAnswers :
          LET cheaper_products == analyze_screenshot_for_cheaper_products(answer, ss_price)
          IN  /\ IsHit(cheaper_products, ss_price)
              /\ LET best_price == Cheapest(cheaper_products).price
                 IN  /\ GLOBAL_LOWEST_PRICE' = UpdateLowest(GLOBAL_LOWEST_PRICE, best_price)
                     /\ ScrollReturn(TRUE, best_price)
              /\ ss_products' = cheaper_products
              /\ ss_tap' = CheapestIndex(cheaper_products)
    /\ ss_captured' = ss_captured \cup {scroll_num}
    /\ \E click \in ClickResults, adb \in AdbTapResults :
          /\ tap_calls' = SearchTap(click, adb)
          /\ IF TapDelivered(click, adb)
             THEN \E s \in Screens : Navigated(s, FALSE, FALSE)
             ELSE Checked(FALSE, FALSE)
    /\ UNCHANGED <<PRICE_CHECK_HISTORY, VISITED_PRODUCTS, iteration, current_price,
                   outcome, ret_price, exit_site, History, logging, steps, ss_last,
                   ss_swipes, stockVars, parseVars, mainVars>>

OnlyRaiseEnds(swipe) == swipe = "raise"

\* lines 407-413: an unchanged content hash, or an exception of the swipe or
\* of a hierarchy dump, breaks out of the for loop
SwipeEnds(swipe) == swipe # "moved"

\* No capture on this step (an odd step, or capture_screenshot returned None),
\* or no candidate below the price: one swipe follows, and an unchanged
\* content hash or an exception ends the search.
ScrollSwipe ==
    /\ pc = "ss"
    /\ \/ /\ ~CaptureStep(scroll_num)
          /\ UNCHANGED <<ss_products, ss_captured>>
       \/ /\ CaptureStep(scroll_num)
          /\ ss_captured' = ss_captured \cup {scroll_num}
          /\ \/ UNCHANGED ss_products
             \/ \E answer \in OracleAnswers :
                   LET cheaper_products ==
                           analyze_screenshot_for_cheaper_products(answer, ss_price)
                   IN  /\ ~IsHit(cheaper_products, ss_price)
                       /\ ss_products' = cheaper_products
    /\ ss_swipes' = ss_swipes + 1
    /\ \E swipe \in {"moved", "same", "raise"} :
          /\ ss_last' = swipe
          /\ IF ~SwipeEnds(swipe) /\ scroll_num + 1 < max_scrolls
             THEN /\ scroll_num' = scroll_num + 1
                  /\ UNCHANGED <<pc, ss_price, ss_found, ss_new_price>>
             ELSE ScrollReturn(FALSE, ss_price)
    /\ UNCHANGED <<Globals, iteration, current_price, screen, err_ok, stock_ok,
                   outcome, ret_price, exit_site, History, logVars, ss_tap, stockVars,
                   parseVars, mainVars>>

\* ------------------------------------------- process_product_page_loop
LoopTestOffByOne(i) == i <= max_iterations

LoopTest(i) == i < max_iterations

Fingerprint(title, price) == <<title, price>>

NeverVisited(visited, fp) == FALSE

\* "if product_fingerprint in VISITED_PRODUCTS"
AlreadyVisited(visited, fp) == fp \in visited

ForgetVisited(visited, fp) == {fp}

\* VISITED_PRODUCTS.add(product_fingerprint)
AddVisited(visited, fp) == visited \cup {fp}

\* lines 569-596: the while test, the screen read, the substitute for an
\* unknown price, the stop on a revisited fingerprint
Iterate ==
    /\ pc = "loop"
    /\ LoopTest(iteration)
    /\ LET read == screen.price
           price == IF read = NoPrice THEN OrElse(GLOBAL_LOWEST_PRICE, 0) ELSE read
           product_fingerprint == Fingerprint(screen.title, price)
       IN  /\ iteration' = iteration + 1
           /\ current_price' = price
           /\ min_seen' = Seen(min_seen, read)
           /\ first_price' = IF iteration = 0 THEN read ELSE first_price
           /\ IF AlreadyVisited(VISITED_PRODUCTS, product_fingerprint)
              THEN /\ Return(TRUE, price, "cycle")
                   /\ UNCHANGED Globals
              ELSE /\ VISITED_PRODUCTS' = AddVisited(VISITED_PRODUCTS, product_fingerprint)
                   /\ PRICE_CHECK_HISTORY' = Append(PRICE_CHECK_HISTORY, price)
                   /\ pc' = "body"
                   /\ UNCHANGED <<GLOBAL_LOWEST_PRICE, outcome, ret_price, exit_site>>
    /\ UNCHANGED <<screen, err_ok, stock_ok, first_branch, min_normal, final_passes, logVars,
                   scrollVars, stockVars, parseVars, mainVars>>

\* lines 598-608: an error page; any alternative the search taps continues
\* the loop, none ends it as FAILURE
ErrorBranch ==
    /\ pc = "body"
    /\ screen.err
    /\ \E r \in smart_scroll_and_find_cheaper(current_price) :
          /\ GLOBAL_LOWEST_PRICE' = AfterScroll(GLOBAL_LOWEST_PRICE, r)
          /\ IF r.found
             THEN /\ \E s \in Screens : Navigated(s, FALSE, FALSE)
                  /\ Continue
                  /\ Log("err_tap")
             ELSE /\ Checked(FALSE, stock_ok)
                  /\ Return(FALSE, current_price, "err")
                  /\ Log("err_stop")
    /\ first_branch' = Branch("err")
    /\ UNCHANGED <<PRICE_CHECK_HISTORY, VISITED_PRODUCTS, iteration, current_price,
                   min_seen, first_price, min_normal, final_passes, scrollVars,
                   stockVars, parseVars, mainVars>>

\* The find-available answer of the oracle; ok = FALSE stands for every
\* failure inside the try of lines 618-748 (a swipe that raises, no
\* screenshot, an oracle error, text that is not JSON).
AvailableAnswers == [ok : BOOLEAN, confidence : {"high", "medium", "low"}, x : {0, 1},
                     price : Prices]

Usable(answer) ==
    answer.ok /\ answer.confidence \in {"high", "medium"} /\ answer.x > 0

\* lines 611-767: out of stock; a usable oracle answer is tapped, otherwise
\* the scroll search is the fallback
OutOfStockBranch ==
    /\ pc = "body"
    /\ ~screen.err
    /\ screen.oos
    /\ \/ \E answer \in {a \in AvailableAnswers : Usable(a)} :
            /\ GLOBAL_LOWEST_PRICE' = UpdateLowest(GLOBAL_LOWEST_PRICE, answer.price)
            /\ \E s \in Screens : Navigated(s, FALSE, FALSE)
            /\ Continue
            /\ Log("oos_oracle_tap")
       \/ /\ \E answer \in AvailableAnswers : ~Usable(answer)
          /\ \E r \in smart_scroll_and_find_cheaper(current_price) :
                /\ GLOBAL_LOWEST_PRICE' = AfterScroll(GLOBAL_LOWEST_PRICE, r)
                /\ IF r.found
                   THEN /\ \E s \in Screens : Navigated(s, FALSE, TRUE)
                        /\ Continue
                        /\ Log("oos_tap")
                   ELSE /\ Checked(TRUE, FALSE)
                        /\ Return(FALSE, OrElse(GLOBAL_LOWEST_PRICE, current_price), "oos")
                        /\ Log("oos_stop")
    /\ first_branch' = Branch("oos")
    /\ UNCHANGED <<PRICE_CHECK_HISTORY, VISITED_PRODUCTS, iteration, current_price,
                   min_seen, first_price, min_normal, final_passes, scrollVars,
                   stockVars, parseVars, mainVars>>

\* lines 769-808: in stock; the global lowest price is updated, a cheaper
\* variant that the search taps is checked and continues the loop, and with
\* none the page is reloaded for verification
NormalBranch ==
    /\ pc = "body"
    /\ ~screen.err
    /\ ~screen.oos
    /\ LET lowest == UpdateLowest(GLOBAL_LOWEST_PRICE, current_price)
       IN  \E r \in smart_scroll_and_find_cheaper(current_price) :
              /\ GLOBAL_LOWEST_PRICE' = AfterScroll(lowest, r)
              /\ IF r.found
                 THEN /\ \E s \in Screens : Navigated(s, TRUE, ~s.err)
                      /\ Continue
                      /\ Log("normal_tap")
                 ELSE /\ \E s \in Screens : Navigated(s, FALSE, FALSE)
                      /\ pc' = "reload"
                      /\ UNCHANGED <<outcome, ret_price, exit_site>>
                      /\ Log("normal_reload")
    /\ first_branch' = Branch("normal")
    /\ min_normal' = Seen(min_normal, screen.price)
    /\ UNCHANGED <<PRICE_CHECK_HISTORY, VISITED_PRODUCTS, iteration, current_price,
                   min_seen, first_price, final_passes, scrollVars, stockVars, parseVars, mainVars>>

\* lines 814-826: an error after the reload
ReloadErrorBranch ==
    /\ pc = "reload"
    /\ screen.err
    /\ \E r \in smart_scroll_and_find_cheaper(current_price) :
          /\ GLOBAL_LOWEST_PRICE' = AfterScroll(GLOBAL_LOWEST_PRICE, r)
          /\ IF r.found
             THEN /\ \E s \in Screens : Navigated(s, FALSE, FALSE)
                  /\ Continue
                  /\ Log("rv_err_tap")
             ELSE /\ Checked(FALSE, stock_ok)
                  /\ Return(FALSE, current_price, "rv_err")
                  /\ Log("rv_err_stop")
    /\ UNCHANGED <<PRICE_CHECK_HISTORY, VISITED_PRODUCTS, iteration, current_price,
                   History, scrollVars, stockVars, parseVars, mainVars>>

\* lines 829-854: out of stock after the reload; an alternative that is in
\* stock becomes the current price
ReloadStockBranch ==
    /\ pc = "reload"
    /\ ~screen.err
    /\ screen.oos
    /\ \E r \in smart_scroll_and_find_cheaper(current_price) :
          IF r.found
          THEN \E s \in Screens :
                  /\ Navigated(s, FALSE, TRUE)
                  /\ current_price' = IF s.oos THEN current_price ELSE r.price
                  /\ GLOBAL_LOWEST_PRICE' =
                        IF s.oos THEN AfterScroll(GLOBAL_LOWEST_PRICE, r)
                        ELSE UpdateLowest(AfterScroll(GLOBAL_LOWEST_PRICE, r), r.price)
                  /\ Continue
                  /\ Log("rv_oos_tap")
          ELSE /\ Checked(TRUE, FALSE)
               /\ Return(FALSE, OrElse(GLOBAL_LOWEST_PRICE, current_price), "rv_oos")
               /\ UNCHANGED <<GLOBAL_LOWEST_PRICE, current_price>>
               /\ Log("rv_oos_stop")
    /\ UNCHANGED <<PRICE_CHECK_HISTORY, VISITED_PRODUCTS, iteration, History,
                   scrollVars, stockVars, parseVars, mainVars>>

\* lines 856-868: the reloaded page is fine; the price is read again, a
\* changed price is adopted, and the loop returns SUCCESS
ReloadSuccess ==
    /\ pc = "reload"
    /\ ~screen.err
    /\ ~screen.oos
    /\ LET reloaded_price == screen.price
           changed == reloaded_price # NoPrice /\ reloaded_price # current_price
           price == IF changed THEN reloaded_price ELSE current_price
       IN  /\ current_price' = price
           /\ GLOBAL_LOWEST_PRICE' =
                 IF changed THEN UpdateLowest(GLOBAL_LOWEST_PRICE, reloaded_price)
                 ELSE GLOBAL_LOWEST_PRICE
           /\ min_seen' = Seen(min_seen, reloaded_price)
           /\ Return(TRUE, price, "rv")
    /\ Checked(TRUE, TRUE)
    /\ Log("rv_ok")
    /\ UNCHANGED <<PRICE_CHECK_HISTORY, VISITED_PRODUCTS, iteration, first_price,
                   first_branch, min_normal, final_passes, scrollVars, stockVars, parseVars, mainVars>>

\* ----------------------------- the final pass after the iteration cap
\* lines 870-882: the while test fails and the page is reloaded
FinalReload ==
    /\ pc = "loop"
    /\ ~LoopTest(iteration)
    /\ pc' = "final"
    /\ final_passes' = final_passes + 1
    /\ Log("final_reload")
    /\ \E s \in Screens : Navigated(s, FALSE, FALSE)
    /\ UNCHANGED <<Globals, iteration, current_price, outcome, ret_price, exit_site,
                   min_seen, first_price, first_branch, min_normal, scrollVars,
                   stockVars, parseVars, mainVars>>

\* lines 885-902
FinalStockBranch ==
    /\ pc = "final"
    /\ screen.oos
    /\ LET final_price == OrElse(GLOBAL_LOWEST_PRICE, 0)
       IN  \E r \in smart_scroll_and_find_cheaper(final_price) :
              IF r.found
              THEN \E s \in Screens :
                      /\ Navigated(s, FALSE, TRUE)
                      /\ Log("final_oos_tap")
                      /\ IF ~s.oos
                         THEN /\ GLOBAL_LOWEST_PRICE' =
                                    UpdateLowest(AfterScroll(GLOBAL_LOWEST_PRICE, r), r.price)
                              /\ Return(TRUE, r.price, "final_oos")
                         ELSE /\ GLOBAL_LOWEST_PRICE' = AfterScroll(GLOBAL_LOWEST_PRICE, r)
                              /\ Return(FALSE, GLOBAL_LOWEST_PRICE', "final_oos")
              ELSE /\ Checked(err_ok, FALSE)
                   /\ UNCHANGED GLOBAL_LOWEST_PRICE
                   /\ Return(FALSE, GLOBAL_LOWEST_PRICE, "final_oos")
                   /\ Log("final_oos_stop")
    /\ UNCHANGED <<PRICE_CHECK_HISTORY, VISITED_PRODUCTS, iteration, current_price,
                   History, scrollVars, stockVars, parseVars, mainVars>>

\* lines 904-918
FinalErrorBranch ==
    /\ pc = "final"
    /\ ~screen.oos
    /\ screen.err
    /\ LET final_price == OrElse(GLOBAL_LOWEST_PRICE, 0)
       IN  \E r \in smart_scroll_and_find_cheaper(final_price) :
              /\ GLOBAL_LOWEST_PRICE' = AfterScroll(GLOBAL_LOWEST_PRICE, r)
              /\ IF r.found
                 THEN \E s \in Screens :
                         /\ Navigated(s, TRUE, FALSE)
                         /\ Log("final_err_tap")
                         /\ IF ~s.err
                            THEN Return(TRUE, r.price, "final_err")
                            ELSE Return(FALSE, GLOBAL_LOWEST_PRICE', "final_err")
                 ELSE /\ Checked(FALSE, TRUE)
                      /\ Return(FALSE, GLOBAL_LOWEST_PRICE, "final_err")
                      /\ Log("final_err_stop")
    /\ UNCHANGED <<PRICE_CHECK_HISTORY, VISITED_PRODUCTS, iteration, current_price,
                   History, scrollVars, stockVars, parseVars, mainVars>>

\* lines 920-922
FinalSuccess ==
    /\ pc = "final"
    /\ ~screen.oos
    /\ ~screen.err
    /\ Checked(TRUE, TRUE)
    /\ Log("final_ok")
    /\ Return(TRUE, GLOBAL_LOWEST_PRICE, "final")
    /\ UNCHANGED <<Globals, iteration, current_price, History, scrollVars, stockVars, parseVars, mainVars>>

\* ------------------------------------------------------ specifications
Next ==
    \/ Iterate
    \/ ErrorBranch
    \/ OutOfStockBranch
    \/ NormalBranch
    \/ ReloadErrorBranch
    \/ ReloadStockBranch
    \/ ReloadSuccess
    \/ FinalReload
    \/ FinalStockBranch
    \/ FinalErrorBranch
    \/ FinalSuccess

Spec == Init /\ [][Next]_vars

\* Every call of the loop is a blocking call that returns or raises in finite
\* time, so the single control thread always takes its next step.
FairSpec == Spec /\ WF_vars(Next)

\* ------------------------------------------- an oracle price that is text
\* A "price" of the find-available answer that is a string such as "18000":
\* valid JSON of the wrong shape, which json.loads accepts.
TextPrice == 0 - 2

\* An exception leaves process_product_page_loop: no return statement is
\* reached and no outcome is produced.
LoopRaise ==
    /\ pc' = "raised"
    /\ UNCHANGED <<outcome, ret_price, exit_site>>

\* The product pages that show a price
PricedScreens == {t \in Screens : t.price # NoPrice}

\* lines 702-733 while "GLOBAL_LOWEST_PRICE is None" holds: device.click, and
\* the adb tap of the handler when it raised
OracleTap(click) ==
    IF click = "ok" THEN <<"oracle_click">> ELSE <<"oracle_click_raised", "oracle_adb">>

\* lines 702-733 with a text in GLOBAL_LOWEST_PRICE: after a click that
\* returned, "new_price < GLOBAL_LOWEST_PRICE" raises TypeError inside the
\* same try, so the handler of line 719 makes the adb tap as well
OracleTapWithText(click) ==
    IF click = "ok" THEN <<"oracle_click", "oracle_adb">>
                    ELSE <<"oracle_click_raised", "oracle_adb">>

\* lines 362-390 with a text in GLOBAL_LOWEST_PRICE, likewise
SearchTapWithText(click) ==
    IF click = "ok" THEN <<"search_click", "search_adb">>
                    ELSE <<"search_click_raised", "search_adb">>

\* lines 346-390 and 420-424 with a text in GLOBAL_LOWEST_PRICE: the capture
\* yields a candidate below the price passed in and it is tapped; the
\* comparison of line 383 raises in the handler of line 377, the except of
\* line 420 catches it, and the call returns (False, current_price)
SearchHitWithText(price, hit) ==
    /\ ss_price' = price
    /\ ss_products' = <<[price |-> hit]>>
    /\ ss_tap' = 1
    /\ ss_found' = FALSE
    /\ ss_new_price' = price
    /\ UNCHANGED <<scroll_num, ss_last, ss_captured, ss_swipes>>

\* lines 690-718, first iteration (GLOBAL_LOWEST_PRICE is None): the answer is
\* usable by confidence and x, the tap is delivered, and "GLOBAL_LOWEST_PRICE
\* is None or ..." stores new_price without comparing it; the tap opens a
\* product page s that shows a price, which the next iteration of the while
\* loop reads.
OutOfStockTextPrice ==
    /\ pc = "body"
    /\ ~screen.err
    /\ screen.oos
    /\ GLOBAL_LOWEST_PRICE = NoPrice
    /\ LoopTest(iteration)
    /\ GLOBAL_LOWEST_PRICE' = TextPrice
    /\ \E s \in PricedScreens : Navigated(s, FALSE, FALSE)
    /\ Continue
    /\ \E click \in ClickResults : LogTaps("oos_oracle_tap", OracleTap(click))
    /\ first_branch' = Branch("oos")
    /\ UNCHANGED <<PRICE_CHECK_HISTORY, VISITED_PRODUCTS, iteration, current_price,
                   min_seen, first_price, min_normal, final_passes, scrollVars,
                   stockVars, parseVars, mainVars>>

\* line 770: "current_price < GLOBAL_LOWEST_PRICE" with a float on the left
\* and a str on the right raises TypeError; the statement is in no try block
\* of process_product_page_loop.
NormalBranchRaises ==
    /\ pc = "body"
    /\ ~screen.err
    /\ ~screen.oos
    /\ GLOBAL_LOWEST_PRICE = TextPrice
    /\ current_price # NoPrice
    /\ LoopRaise
    /\ Log("normal_raise")
    /\ UNCHANGED <<Globals, iteration, current_price, screen, err_ok, stock_ok, History,
                   scrollVars, stockVars, parseVars, mainVars>>

\* lines 598-608 with a text in GLOBAL_LOWEST_PRICE: a search that taps a
\* candidate returns (False, current_price) all the same, and the loop
\* returns FAILURE from the page the taps opened
TextErrorBranch ==
    /\ pc = "body"
    /\ screen.err
    /\ GLOBAL_LOWEST_PRICE = TextPrice
    /\ \E r \in smart_scroll_and_find_cheaper(current_price) :
          IF r.found
          THEN /\ SearchHitWithText(current_price, r.price)
               /\ \E s \in PricedScreens : Navigated(s, FALSE, FALSE)
               /\ \E click \in ClickResults : LogTaps("err_stop", SearchTapWithText(click))
          ELSE /\ UNCHANGED scrollVars
               /\ Checked(FALSE, stock_ok)
               /\ LogTaps("err_stop", << >>)
    /\ Return(FALSE, current_price, "err")
    /\ first_branch' = Branch("err")
    /\ UNCHANGED <<Globals, iteration, current_price, min_seen, first_price, min_normal,
                   final_passes, stockVars, parseVars, mainVars>>

\* lines 611-767 with a text in GLOBAL_LOWEST_PRICE: a usable answer is
\* tapped, the comparison of line 707 or 725 raises, the except of line 747
\* catches it and the fallback search runs on the page the taps opened; found
\* or not, the search returns False and line 767 returns the text
TextOutOfStockBranch ==
    /\ pc = "body"
    /\ ~screen.err
    /\ screen.oos
    /\ GLOBAL_LOWEST_PRICE = TextPrice
    /\ \E answer \in AvailableAnswers, r \in smart_scroll_and_find_cheaper(current_price),
          click \in ClickResults, again \in ClickResults :
          LET oracle == IF Usable(answer) THEN OracleTapWithText(click) ELSE << >>
              search == IF r.found THEN SearchTapWithText(again) ELSE << >>
          IN  /\ IF r.found THEN SearchHitWithText(current_price, r.price)
                            ELSE UNCHANGED scrollVars
              /\ IF oracle \o search = << >>
                 THEN Checked(TRUE, FALSE)
                 ELSE \E s \in PricedScreens : Navigated(s, FALSE, FALSE)
              /\ LogTaps("oos_stop", oracle \o search)
    /\ Return(FALSE, OrElse(GLOBAL_LOWEST_PRICE, current_price), "oos")
    /\ first_branch' = Branch("oos")
    /\ UNCHANGED <<Globals, iteration, current_price, min_seen, first_price, min_normal,
                   final_passes, stockVars, parseVars, mainVars>>

\* The loop's steps while every price it compares is a number
NumericStep == GLOBAL_LOWEST_PRICE # TextPrice /\ Next

\* The while test and the top of the body, which compare no price
TextIterate == GLOBAL_LOWEST_PRICE = TextPrice /\ Iterate

FaultNext ==
    \/ NumericStep
    \/ OutOfStockTextPrice
    \/ TextIterate
    \/ NormalBranchRaises
    \/ TextErrorBranch
    \/ TextOutOfStockBranch

\* The loop with a find-available oracle that may answer the first
\* out-of-stock screen with a price that is text
FaultSpec == Init /\ [][FaultNext]_vars

\* The loop started on a product page that is in stock, shows no error and
\* shows a price, with the history of steps kept.
ScenarioInit ==
    /\ screen \in {s \in Screens : s.price # NoPrice /\ ~s.err /\ ~s.oos}
    /\ logging = TRUE
    /\ steps = << >>
    /\ tap_calls = << >>
    /\ GLOBAL_LOWEST_PRICE = NoPrice
    /\ PRICE_CHECK_HISTORY = << >>
    /\ VISITED_PRODUCTS = {}
    /\ iteration = 0
    /\ current_price = NoPrice
    /\ pc = "loop"
    /\ outcome = "none"
    /\ ret_price = NoPrice
    /\ exit_site = "none"
    /\ min_seen = NoPrice
    /\ first_price = NoPrice
    /\ first_branch = "none"
    /\ min_normal = NoPrice
    /\ err_ok = FALSE
    /\ stock_ok = FALSE
    /\ final_passes = 0
    /\ ScrollIdleInit
    /\ StockIdle
    /\ MainIdle
    /\ ParseIdle

ScenarioSpec == ScenarioInit /\ [][Next]_vars

\* check_out_of_stock alone, over every answer of the device's lookups
StockSpecInit ==
    /\ screen = [title |-> "A", price |-> NoPrice, err |-> FALSE, oos |-> FALSE]
    /\ LoopInit
    /\ ScrollIdleInit
    /\ StockInit
    /\ MainIdle
    /\ ParseIdle

StockNext == ApplyCheckOutOfStock /\ UNCHANGED <<loopVars, scrollVars, parseVars, mainVars>>

StockSpec == StockSpecInit /\ [][StockNext]_vars

\* the two price parsers alone, over every text up to MaxLen characters
ParserSpecInit ==
    /\ screen = [title |-> "A", price |-> NoPrice, err |-> FALSE, oos |-> FALSE]
    /\ LoopInit
    /\ ScrollIdleInit
    /\ StockIdle
    /\ MainIdle
    /\ ParseInit

ParserNext ==
    ApplyPriceParsers /\ UNCHANGED <<loopVars, scrollVars, stockVars, mainVars>>

ParserSpec == ParserSpecInit /\ [][ParserNext]_vars

\* smart_scroll_and_find_cheaper alone, step by step, for every price passed
\* in and every global lowest price
ScrollInit ==
    /\ GLOBAL_LOWEST_PRICE \in {NoPrice} \cup (0..MaxPrice)
    /\ PRICE_CHECK_HISTORY = << >>
    /\ VISITED_PRODUCTS = {}
    /\ iteration = 1
    /\ current_price \in 0..MaxPrice
    /\ pc = "ss"
    /\ screen = [title |-> "A", price |-> NoPrice, err |-> FALSE, oos |-> FALSE]
    /\ outcome = "none"
    /\ ret_price = NoPrice
    /\ exit_site = "none"
    /\ min_seen = NoPrice
    /\ first_price = NoPrice
    /\ first_branch = "none"
    /\ min_normal = NoPrice
    /\ err_ok = FALSE
    /\ stock_ok = FALSE
    /\ final_passes = 0
    /\ logging = FALSE
    /\ steps = << >>
    /\ tap_calls = << >>
    /\ scroll_num = 0
    /\ ss_price = current_price
    /\ ss_found = FALSE
    /\ ss_new_price = NoPrice
    /\ ss_last = "none"
    /\ ss_products = << >>
    /\ ss_tap = 0
    /\ ss_captured = {}
    /\ ss_swipes = 0
    /\ StockIdle
    /\ MainIdle
    /\ ParseIdle

ScrollNext == ScrollEntryRaise \/ ScrollHit \/ ScrollSwipe

ScrollSpec == ScrollInit /\ [][ScrollNext]_vars

\* ------------------------------------- main and add_to_cart_ui_automator
\* What "adb devices" answered: whether the command succeeded, whether its
\* output holds the word "device", and how many newlines the output has.
AdbAnswers == [success : BOOLEAN, word : BOOLEAN, newlines : 0..3]

check_adb_connection(adb) == adb.success /\ adb.word /\ adb.newlines > 1

\* The process ends: main returns (exit code 0) or sys.exit(code) unwinds
\* through the entry point, which catches neither SystemExit nor a return;
\* n is 1 when cleanup_screenshots is called before, taps the cart taps made.
ExitWithoutCleanup(site, code, taps, n) ==
    /\ main_pc' = "atexit"
    /\ main_site' = site
    /\ exit_code' = code
    /\ cart_taps' = cart_taps \o taps
    /\ cleanups' = cleanups

Exit(site, code, taps, n) ==
    /\ main_pc' = "atexit"
    /\ main_site' = site
    /\ exit_code' = code
    /\ cart_taps' = cart_taps \o taps
    /\ cleanups' = cleanups + n

\* Module start-up, lines 19-95: a missing package, a missing API key or no
\* usable vision model ends the process with sys.exit(1) before
\* cleanup_screenshots is defined (108) and registered with atexit (127).
StartupFailures == {"no_genai", "no_uiautomator2", "no_api_keys", "no_vision_model"}

ModuleStart ==
    /\ main_pc = "import"
    /\ \/ \E failure \in StartupFailures :
            /\ main_pc' = "exited"
            /\ main_site' = failure
            /\ exit_code' = 1
            /\ UNCHANGED <<cart_taps, cleanups>>
       \/ /\ main_pc' = "main"
          /\ UNCHANGED <<main_site, exit_code, cart_taps, cleanups>>
    /\ UNCHANGED <<loopVars, scrollVars, stockVars, parseVars>>

\* How main's steps before the device is used again can end.
MainInputs == {"no_name", "no_results", "no_deal", "no_url", "raise", "go"}

\* main up to the second device check: an early return leaves the process
\* with exit code 0; the first one does not call cleanup_screenshots.
MainStart ==
    /\ main_pc = "main"
    /\ \E adb \in AdbAnswers, what \in MainInputs, again \in AdbAnswers :
        IF ~check_adb_connection(adb) THEN Exit("no_device", 0, << >>, 0)
        ELSE IF what = "raise" THEN Exit("main_raise", 0, << >>, 0)
        ELSE IF what # "go" THEN Exit(what, 0, << >>, 1)
        ELSE IF ~check_adb_connection(again) THEN Exit("no_device_recheck", 0, << >>, 1)
        ELSE /\ main_pc' = "open"
             /\ UNCHANGED <<main_site, exit_code, cart_taps, cleanups>>
    /\ UNCHANGED <<loopVars, scrollVars, stockVars, parseVars>>

\* main's try block: the page opened (after the product-card tap, when one
\* was made) is s; any exception, an error page or an unavailable product
\* ends main with cleanup and a plain return.
MainOpen ==
    /\ main_pc = "open"
    /\ \E r \in {"raise", "ok"}, s \in Screens :
        /\ screen' = s
        /\ IF r = "raise" THEN Exit("main_except", 0, << >>, 1)
           ELSE IF s.err THEN Exit("page_error", 0, << >>, 1)
           ELSE IF s.oos THEN Exit("out_of_stock", 0, << >>, 1)
           ELSE /\ main_pc' = "cart"
                /\ UNCHANGED <<main_site, exit_code, cart_taps, cleanups>>
    /\ UNCHANGED <<Globals, iteration, current_price, pc, outcome, ret_price, exit_site,
                   min_seen, first_price, first_branch, min_normal, err_ok, stock_ok,
                   final_passes, logVars, scrollVars, stockVars, parseVars>>

\* add_to_cart_ui_automator's handler for any exception of its body:
\* add_to_cart_scroll_click taps blindly, then cleanup and sys.exit(0).
CartExcept == Exit("cart_except", 0, <<"blind">>, 1)

\* u2.connect() at the top of add_to_cart_ui_automator
CartConnect ==
    /\ main_pc = "cart"
    /\ \E r \in {"raise", "ok"} :
        IF r = "raise" THEN CartExcept
        ELSE /\ main_pc' = "loop"
             /\ UNCHANGED <<main_site, exit_code, cart_taps, cleanups>>
    /\ UNCHANGED <<loopVars, scrollVars, stockVars, parseVars>>

\* process_product_page_loop returned success = False
CartLoopFailed ==
    /\ main_pc = "loop"
    /\ pc = "done"
    /\ outcome = "FAILURE"
    /\ Exit("loop_failed", 1, << >>, 1)
    /\ UNCHANGED <<loopVars, scrollVars, stockVars, parseVars>>

CartRecheckIgnoresStock ==
    /\ main_pc = "loop"
    /\ pc = "done"
    /\ outcome = "SUCCESS"
    /\ IF screen.err THEN Exit("recheck_error", 1, << >>, 1)
       ELSE /\ main_pc' = "buttons"
            /\ UNCHANGED <<main_site, exit_code, cart_taps, cleanups>>
    /\ UNCHANGED <<loopVars, scrollVars, stockVars, parseVars>>

\* ... returned success = True: the availability re-check of the screen
CartRecheck ==
    /\ main_pc = "loop"
    /\ pc = "done"
    /\ outcome = "SUCCESS"
    /\ IF screen.err THEN Exit("recheck_error", 1, << >>, 1)
       ELSE IF screen.oos THEN Exit("recheck_oos", 1, << >>, 1)
       ELSE /\ main_pc' = "buttons"
            /\ UNCHANGED <<main_site, exit_code, cart_taps, cleanups>>
    /\ UNCHANGED <<loopVars, scrollVars, stockVars, parseVars>>

AddToCartFirst(i) == IF i <= NumAddToCartTexts THEN "add_to_cart" ELSE "go_to_cart"

\* go_to_cart_texts followed by add_to_cart_texts: the kind of the i-th text
ButtonKind(i) == IF i <= NumGoToCartTexts THEN "go_to_cart" ELSE "add_to_cart"

\* element.click() raised after exists() had returned True
Raised(kind) == IF kind = "go_to_cart" THEN "go_to_cart_raised" ELSE "add_to_cart_raised"

\* lines 1167-1217: the two for loops from text i on, after the clicks in
\* taps.  A text that exists and whose click returns ends the search
\* (cleanup, sys.exit(0)); a text that is absent, or whose lookup raises, is
\* passed over; a click that raises is passed over as well ("except
\* Exception: continue"); after the last text comes add_to_cart_scroll_click.
RECURSIVE CartTapsFrom(_, _)
CartTapsFrom(i, taps) ==
    IF i > NumGoToCartTexts + NumAddToCartTexts THEN {Append(taps, "blind")}
    ELSE {Append(taps, ButtonKind(i))}
         \cup CartTapsFrom(i + 1, taps)
         \cup CartTapsFrom(i + 1, Append(taps, Raised(ButtonKind(i))))

\* the clicks the button search can make, in order
CartTaps == CartTapsFrom(1, << >>)

\* the sys.exit(0) that follows the last click
CartSite(taps) == IF taps[Len(taps)] = "blind" THEN "fallback" ELSE taps[Len(taps)]

\* The button search: a "Go to Cart" text found and clicked, else an
\* "Add to Cart" text found and clicked, else the blind fallback tap; a
\* lookup or click that raises moves on to the next text.
CartButtons ==
    /\ main_pc = "buttons"
    /\ \E taps \in CartTaps : Exit(CartSite(taps), 0, taps, 1)
    /\ UNCHANGED <<loopVars, scrollVars, stockVars, parseVars>>

AtExitUnregistered ==
    /\ main_pc = "atexit"
    /\ main_pc' = "exited"
    /\ UNCHANGED <<cleanups, main_site, exit_code, cart_taps, loopVars, scrollVars, stockVars, parseVars>>

\* atexit runs cleanup_screenshots when the interpreter ends
AtExit ==
    /\ main_pc = "atexit"
    /\ main_pc' = "exited"
    /\ cleanups' = cleanups + 1
    /\ UNCHANGED <<main_site, exit_code, cart_taps, loopVars, scrollVars, stockVars, parseVars>>

\* the loop's steps, run from add_to_cart_ui_automator
LoopStep == main_pc = "loop" /\ Next

ProgramInit ==
    /\ LoopInit
    /\ screen = [title |-> "A", price |-> NoPrice, err |-> FALSE, oos |-> FALSE]
    /\ ScrollIdleInit
    /\ StockIdle
    /\ ParseIdle
    /\ main_pc = "import"
    /\ main_site = "none"
    /\ exit_code = NoExit
    /\ cart_taps = << >>
    /\ cleanups = 0

ProgramNext ==
    \/ ModuleStart
    \/ MainStart
    \/ MainOpen
    \/ CartConnect
    \/ LoopStep
    \/ CartLoopFailed
    \/ CartRecheck
    \/ CartButtons
    \/ AtExit

\* The whole program, from the start of the module to the end of the process
ProgramSpec == ProgramInit /\ [][ProgramNext]_vars

\* Ctrl-C while main runs: KeyboardInterrupt unwinds to the entry point
\* (1471-1472), which calls cleanup_screenshots; the process then ends.
Interrupt ==
    /\ main_pc \in {"main", "open", "cart", "loop", "buttons"}
    /\ Exit("interrupt", 0, << >>, 1)
    /\ UNCHANGED <<loopVars, scrollVars, stockVars, parseVars>>

InterruptNext == ProgramNext \/ Interrupt

\* The whole program with a user who may interrupt it at any moment
InterruptSpec == ProgramInit /\ [][InterruptNext]_vars

\* The components around the loop, each run on its own: the whole program
\* with the search taken as one call, and the search alone step by step.
ComponentsInit == ProgramInit \/ ScrollInit

ComponentsNext == ProgramNext \/ ScrollNext

ComponentsSpec == ComponentsInit /\ [][ComponentsNext]_vars

\* A step of smart_scroll_and_find_cheaper
ScrollSearchStep == pc = "ss"

\* A step of main or add_to_cart_ui_automator outside the loop's call
FinalizerStep ==
    main_pc \in {"import", "main", "open", "cart", "buttons", "atexit"} \/ pc = "done"

\* The process has ended or is ending (only the atexit handler is left).
Ended == main_pc \in {"atexit", "exited"}

\* The step-by-step call ends with a result of the call taken at once.
ScrollStepsAgree ==
    pc = "ret" =>
        [found |-> ss_found, price |-> ss_new_price] \in smart_scroll_and_find_cheaper(ss_price)

\* ================================================================ claims
FinalSites == {"final", "final_oos", "final_err"}

\* C1: once GLOBAL_LOWEST_PRICE is set, no step of the loop, of a scroll
\* search, of an oracle tap or of a reload-verify pass raises it or resets it
\* to unset.
C1_LowestNeverRises ==
    [][GLOBAL_LOWEST_PRICE # NoPrice =>
          /\ GLOBAL_LOWEST_PRICE' # NoPrice
          /\ GLOBAL_LOWEST_PRICE' <= GLOBAL_LOWEST_PRICE]_vars

\* the price re-read after the reload is higher and did not raise the lowest
C1_Witness ==
    /\ exit_site = "rv"
    /\ GLOBAL_LOWEST_PRICE # NoPrice
    /\ ret_price > GLOBAL_LOWEST_PRICE

\* C2 as stated: a SUCCESS price is never above the least price read from a
\* screen during the run.
C2_SuccessNotAboveSeen ==
    (outcome = "SUCCESS" /\ min_seen # NoPrice) => ret_price <= min_seen

\* C2 as amended: a SUCCESS returned by the final pass after the iteration cap
\* reports the global lowest price, which is not above any price read on a
\* screen that took the normal branch.
C2_FinalSuccessIsLowest ==
    (outcome = "SUCCESS" /\ exit_site \in FinalSites) =>
        /\ ret_price = GLOBAL_LOWEST_PRICE
        /\ min_normal # NoPrice => ret_price <= min_normal

C2_Witness ==
    /\ outcome = "SUCCESS"
    /\ exit_site \in FinalSites
    /\ min_normal # NoPrice
    /\ ret_price < min_normal

\* C3 as stated: when the loop terminates, the global lowest price it reports
\* (the reports read "GLOBAL_LOWEST_PRICE if GLOBAL_LOWEST_PRICE") equals the
\* least price read from a screen during the run, error and out-of-stock
\* screens included.
C3_LowestEqualsLeastSeen ==
    (pc = "done" /\ min_seen # NoPrice /\ Truthy(GLOBAL_LOWEST_PRICE)) =>
        GLOBAL_LOWEST_PRICE = min_seen

\* C3 as amended: when the loop terminates the global lowest price is set and
\* not above any price read on a screen that took the normal branch.
C3_LowestBoundsNormalPrices ==
    (pc = "done" /\ min_normal # NoPrice) =>
        /\ GLOBAL_LOWEST_PRICE # NoPrice
        /\ GLOBAL_LOWEST_PRICE <= min_normal

\* a tapped oracle candidate lowered it below every normal-branch reading
C3_Witness ==
    /\ pc = "done"
    /\ min_normal # NoPrice
    /\ GLOBAL_LOWEST_PRICE # NoPrice
    /\ GLOBAL_LOWEST_PRICE < min_normal
    /\ Len(PRICE_CHECK_HISTORY) >= 2

RevisitRead ==
    /\ pc = "loop"
    /\ iteration < max_iterations
    /\ <<screen.title,
         IF screen.price # NoPrice THEN screen.price
         ELSE IF GLOBAL_LOWEST_PRICE \in Prices THEN GLOBAL_LOWEST_PRICE ELSE 0>>
            \in VISITED_PRODUCTS

\* C5: a screen read whose fingerprint is already visited ends the loop in
\* that very step as SUCCESS with the fingerprint's price; nothing is recorded,
\* checked, tapped or reloaded in it, and no step follows the return.
C5_RevisitEndsLoop ==
    /\ [][RevisitRead =>
            /\ pc' = "done"
            /\ outcome' = "SUCCESS"
            /\ <<screen.title, ret_price'>> \in VISITED_PRODUCTS
            /\ screen.price # NoPrice => ret_price' = screen.price
            /\ UNCHANGED <<Globals, screen, err_ok, stock_ok, min_normal, final_passes>>]_vars
    /\ [][pc # "done"]_vars

\* the revisit is detected on the second read
C5_Witness ==
    /\ exit_site = "cycle"
    /\ outcome = "SUCCESS"
    /\ iteration = 2
    /\ Len(PRICE_CHECK_HISTORY) = 1

\* C6 as stated: SUCCESS is returned only for a screen that was checked since
\* it was navigated to and showed no error indicator and no out-of-stock state.
C6_SuccessIsVerified ==
    outcome = "SUCCESS" => (err_ok /\ stock_ok)

\* C7: VISITED_PRODUCTS only grows.
C7_VisitedOnlyGrows ==
    [][VISITED_PRODUCTS \subseteq VISITED_PRODUCTS']_vars

C7_Witness == Cardinality(VISITED_PRODUCTS) = max_iterations

\* C8: at most max_iterations iterations; when the cap is reached without a
\* return, exactly one final reload pass runs and decides the outcome.
C8_CapThenOneFinalPass ==
    /\ [](/\ iteration <= max_iterations
          /\ Len(PRICE_CHECK_HISTORY) <= iteration
          /\ final_passes <= 1
          /\ pc = "final" => (iteration = max_iterations /\ final_passes = 1)
          /\ exit_site \in FinalSites <=> (pc = "done" /\ final_passes = 1))
    /\ [][(pc = "loop" /\ iteration = max_iterations) => pc' = "final"]_vars
    /\ [][pc = "final" => (pc' = "done" /\ outcome' \in {"SUCCESS", "FAILURE"})]_vars

C8_Witness ==
    /\ pc = "done"
    /\ iteration = max_iterations
    /\ final_passes = 1
    /\ outcome = "SUCCESS"

\* the loop's position as a number that falls along the control flow
Stage ==
    CASE pc = "done" -> 0
      [] pc = "final" -> 1
      [] pc = "loop" -> 2
      [] pc = "reload" -> 3
      [] pc = "body" -> 4

Rank == 4 * (max_iterations - iteration) + Stage

\* Termination while every oracle price is a number (the part of C9 that
\* holds): the loop eventually returns, with SUCCESS or with FAILURE.  Every step
\* strictly lowers a rank that is never negative, a step is enabled as long
\* as the loop has not returned, and a returned loop has its outcome: so no
\* sequence of observations keeps it iterating, and the control thread, which
\* always takes its next step, reaches the return.
C9_LoopTerminates ==
    /\ [](Rank >= 0)
    /\ [][Rank' < Rank]_vars
    /\ [](pc # "done" => ENABLED Next)
    /\ [](pc = "done" <=> outcome \in {"SUCCESS", "FAILURE"})

\* the same as a temporal formula, for FairSpec
LoopEventuallyReturns ==
    <>(pc = "done" /\ outcome \in {"SUCCESS", "FAILURE"})

\* the longest run: three iterations that continue, then a failing final pass
C9_Witness ==
    /\ pc = "done"
    /\ iteration = max_iterations
    /\ exit_site = "final_err"
    /\ outcome = "FAILURE"

\* C9: whatever the screen, the oracle and the taps do, the loop ends in
\* exactly one of SUCCESS and FAILURE: once it has ended, by a return or
\* otherwise, it has produced one of the two outcomes.
C9_EndsInOutcome ==
    pc \in {"done", "raised"} => outcome \in {"SUCCESS", "FAILURE"}

\* some purchase button is on the screen
AnyButtonPresent(buttons) == \E i \in 1..NumCartButtons : buttons[i] = "present"

\* C10 as stated: with a purchase button on the screen check_out_of_stock
\* returns False, whatever the number of stock indicators found.
C10_ButtonAlwaysOverrides ==
    (stock_out # "none" /\ AnyButtonPresent(stock_in.buttons)) => stock_out = "False"

\* the button lookups reach a button that is on the screen
ButtonSeen(buttons) ==
    \E i \in 1..NumCartButtons :
        /\ buttons[i] = "present"
        /\ \A j \in 1..(i - 1) : buttons[j] = "absent"

\* C10 as amended: with fewer than two stock indicators found, a purchase
\* button that a lookup finds before any lookup raises makes
\* check_out_of_stock return False.
C10_ButtonOverridesOneIndicator ==
    (/\ stock_out # "none"
     /\ Cardinality(stock_in.found) < 2
     /\ ButtonSeen(stock_in.buttons)) => stock_out = "False"

C10_Witness ==
    /\ stock_out = "False"
    /\ Cardinality(stock_in.found) = 1
    /\ ButtonSeen(stock_in.buttons)

\* C11 as stated: with no purchase button on the screen check_out_of_stock
\* returns True only with two or more stock indicators found; with exactly
\* one the screen counts as in stock and the loop takes the normal branch.
C11_OnePhraseIsNoise ==
    (stock_out # "none" /\ ~AnyButtonPresent(stock_in.buttons)) =>
        /\ stock_out = "True" => Cardinality(stock_in.found) >= 2
        /\ Cardinality(stock_in.found) = 1 => BranchOnStock(stock_out) = "normal"

\* C11 as amended: when no purchase-button lookup finds a button,
\* check_out_of_stock returns True exactly when at least one stock indicator
\* was found, and the loop then takes the out-of-stock branch.
C11_OnePhraseSuffices ==
    (stock_out # "none" /\ ~ButtonSeen(stock_in.buttons)) =>
        /\ stock_out = "True" <=> Cardinality(stock_in.found) >= 1
        /\ BranchOnStock(stock_out) = "oos" <=> Cardinality(stock_in.found) >= 1

\* one indicator, no button on the screen: out of stock
C11_Witness ==
    /\ stock_out = "True"
    /\ Cardinality(stock_in.found) = 1
    /\ ~AnyButtonPresent(stock_in.buttons)

\* C12: a screen with exactly one stock indicator and an "Add to Cart" button
\* (the first button looked up) is classified as in stock.
C12_OnePhraseWithAddToCart ==
    (/\ stock_out # "none"
     /\ Cardinality(stock_in.found) = 1
     /\ stock_in.buttons[1] = "present") => stock_out = "False"

C12_Witness ==
    /\ stock_out = "False"
    /\ Cardinality(stock_in.found) = 1
    /\ stock_in.buttons[1] = "present"
    /\ \A i \in 2..NumCartButtons : stock_in.buttons[i] = "absent"

\* C13: a swipe that leaves the content hash unchanged ends the search in that
\* step with (False, the price passed in); the step changes neither the
\* global lowest price nor the screen, and no step (no swipe, no capture, no
\* oracle call) follows a return.
C13_SameHashStops ==
    /\ [][ss_last' = "same" =>
            /\ pc' = "ret"
            /\ ss_found' = FALSE
            /\ ss_new_price' = ss_price
            /\ UNCHANGED <<Globals, screen, scroll_num, ss_tap>>]_vars
    /\ [][pc = "ss"]_vars

\* the page ends after three swipes, well before max_scrolls
C13_Witness ==
    /\ pc = "ret"
    /\ ss_last = "same"
    /\ scroll_num = 2
    /\ ~ss_found

\* The hit while every price compared is a number: a capture that yields a
\* candidate below the price passed in ends the search in that step: the candidate tapped has the least price of the list
\* and is the first of that price, the call returns (True, that price), and
\* the step makes no swipe; a search that goes on, or returns without a hit,
\* saw no candidate below the price in its last capture.
C14_TapsFirstCheapest ==
    /\ []((pc = "ret" /\ ss_found) =>
            /\ ss_tap \in 1..Len(ss_products)
            /\ \A j \in 1..Len(ss_products) :
                  ss_products[j].price >= ss_products[ss_tap].price
            /\ \A j \in 1..(ss_tap - 1) :
                  ss_products[j].price > ss_products[ss_tap].price
            /\ ss_new_price = ss_products[ss_tap].price
            /\ ss_new_price < ss_price)
    /\ [](~(pc = "ret" /\ ss_found) =>
            \A j \in 1..Len(ss_products) : ss_products[j].price >= ss_price)
    /\ [][ss_found' => UNCHANGED <<ss_last, scroll_num>>]_vars
    /\ [][pc = "ss"]_vars

\* two candidates of the same least price: the first one is tapped, on the
\* second capture
C14_Witness ==
    /\ pc = "ret"
    /\ ss_found
    /\ scroll_num = 2
    /\ Len(ss_products) = 2
    /\ ss_products[1].price = ss_products[2].price
    /\ ss_tap = 1

\* the run of the scenario: the first search taps a cheaper candidate, the
\* next screen shows a lower price and has no issue, the second search finds
\* nothing, and the reloaded page has no issue and shows the same price
CheaperThenVerified ==
    /\ steps = <<"normal_tap", "normal_reload", "rv_ok">>
    /\ Len(PRICE_CHECK_HISTORY) = 2
    /\ first_price = PRICE_CHECK_HISTORY[1]
    /\ PRICE_CHECK_HISTORY[2] < PRICE_CHECK_HISTORY[1]
    /\ screen.price = PRICE_CHECK_HISTORY[2]

\* C15: in that run the loop returns SUCCESS with the second screen's price in
\* its second iteration, after one tap and one reload; and once the second
\* search has found nothing and the reloaded page shows no issue, the next
\* step is that return.
C15_CheaperThenVerified ==
    /\ [](CheaperThenVerified =>
            /\ pc = "done"
            /\ outcome = "SUCCESS"
            /\ ret_price = PRICE_CHECK_HISTORY[2]
            /\ GLOBAL_LOWEST_PRICE <= ret_price
            /\ iteration = 2
            /\ Taps = 1
            /\ Reloads = 1)
    /\ [][(/\ pc = "reload"
           /\ steps = <<"normal_tap", "normal_reload">>
           /\ ~screen.err
           /\ ~screen.oos
           /\ screen.price = current_price) =>
             (/\ pc' = "done"
              /\ outcome' = "SUCCESS"
              /\ ret_price' = current_price
              /\ steps' = <<"normal_tap", "normal_reload", "rv_ok">>)]_vars

\* the scenario with the prices 2 and 1 for 20000 and 18000
C15_Witness ==
    /\ CheaperThenVerified
    /\ PRICE_CHECK_HISTORY = <<2, 1>>
    /\ outcome = "SUCCESS"
    /\ ret_price = 1


\* C16 (as stated): the scroll search and the cart finalizer leave
\* GLOBAL_LOWEST_PRICE, PRICE_CHECK_HISTORY and VISITED_PRODUCTS unchanged.
C16_OnlyLoopWritesRunState ==
    [][(ScrollSearchStep \/ FinalizerStep) => UNCHANGED Globals]_vars

\* C16 (amended): main and the cart finalizer leave all three unchanged; the
\* scroll search leaves PRICE_CHECK_HISTORY and VISITED_PRODUCTS unchanged,
\* and changes GLOBAL_LOWEST_PRICE only when it returns found, to the price
\* it returns, and only when the value was unset or above that price.
C16_SearchOnlyLowersLowest ==
    [][/\ FinalizerStep => UNCHANGED Globals
       /\ ScrollSearchStep =>
            /\ UNCHANGED <<PRICE_CHECK_HISTORY, VISITED_PRODUCTS>>
            /\ \/ GLOBAL_LOWEST_PRICE' = GLOBAL_LOWEST_PRICE
               \/ /\ pc' = "ret"
                  /\ ss_found'
                  /\ GLOBAL_LOWEST_PRICE' = ss_new_price'
                  /\ GLOBAL_LOWEST_PRICE = NoPrice \/ ss_new_price' < GLOBAL_LOWEST_PRICE]_vars

\* A search that returned found below the price passed in, the global lowest
\* price standing at the price it returned.
C16_Witness ==
    /\ pc = "ret"
    /\ ss_found
    /\ current_price = ss_price
    /\ GLOBAL_LOWEST_PRICE = ss_new_price
    /\ ss_new_price < ss_price
    /\ ss_products # << >>


\* C17: once the loop has reported SUCCESS on a screen that shows an error
\* indicator or an unavailable product, the next step ends the program with
\* exit status 1, with no cart tap of any kind and without another step of the
\* loop, and the program stays so to its end.
C17_RecheckFailureIsFatal ==
    /\ [][(main_pc = "loop" /\ pc = "done" /\ outcome = "SUCCESS"
              /\ (screen.err \/ screen.oos))
            => (Ended' /\ exit_code' = 1 /\ cart_taps' = << >> /\ UNCHANGED loopVars)]_vars
    /\ []((Ended /\ outcome = "SUCCESS" /\ (screen.err \/ screen.oos))
            => (exit_code = 1 /\ cart_taps = << >>))

\* The program ended after a SUCCESS of the loop on an unavailable product.
C17_Witness ==
    /\ main_pc = "exited"
    /\ outcome = "SUCCESS"
    /\ screen.oos
    /\ ~screen.err
    /\ exit_code = 1

\* C18: when the loop has returned FAILURE the program ends with
\* cleanup_screenshots called before the exit, a non-zero exit status and no
\* cart tap of any kind.
C18_FailureIsFatal ==
    (Ended /\ outcome = "FAILURE")
        => (cleanups >= 1 /\ exit_code # 0 /\ exit_code # NoExit /\ cart_taps = << >>)

\* The program is ending after a FAILURE of the loop, the atexit handler not
\* yet run.
C18_Witness ==
    /\ main_pc = "atexit"
    /\ outcome = "FAILURE"
    /\ cleanups = 1
    /\ exit_code = 1

\* C19: when check_adb_connection reports no device, at startup or before
\* the URL is opened, the program ends before the loop is entered and its
\* exit code is 1.
C19_NoDeviceExitsOne ==
    (Ended /\ main_site \in {"no_device", "no_device_recheck"})
        => (iteration = 0 /\ exit_code = 1)


\* C20: no oracle answer and no exception of a device call makes an
\* exception leave process_product_page_loop.
C20_NothingPropagates == pc # "raised"


\* C21 (as stated): every execution that has ended has called
\* cleanup_screenshots at least once before the process ended.
C21_EveryExitCleansUp == main_pc = "exited" => cleanups >= 1

\* C21 (amended): every execution that has ended after module start-up
\* completed has called cleanup_screenshots at least once before the process
\* ended; the start-up exits end it without.
C21_ExitAfterStartupCleansUp ==
    main_pc = "exited" =>
        IF main_site \in StartupFailures THEN cleanups = 0 ELSE cleanups >= 1

\* The program ended by main's first early return, which calls no cleanup
\* itself: the atexit handler made the only call.
C21_Witness ==
    /\ main_pc = "exited"
    /\ main_site = "no_device"
    /\ cleanups = 1


\* C22: for every text the two price parsers agree: one returns a number
\* exactly when the other returns the same number, and extract_price_from_text
\* returns None exactly when extract_price_value returns +infinity.
C22_ParsersAgree ==
    parse_out.done =>
        /\ parse_out.from_text.kind = "number" <=> parse_out.value.kind = "number"
        /\ parse_out.from_text.kind = "number" => parse_out.value = parse_out.from_text
        /\ parse_out.from_text.kind = "None" <=> parse_out.value.kind = "inf"


\* C23: the search the error branch invokes (line 601, with the screen's
\* price) accepts an alternative whatever its price: when its last capture
\* yielded a candidate, the search ends with a tap (found).
C23_ErrorSearchTapsAnyAlternative ==
    (pc = "ret" /\ ss_products # << >>) => ss_found


\* A step of the reload-and-verify pass on a screen out of stock whose search
\* tapped an alternative that is out of stock as well.
AlternativeAlsoOutOfStock ==
    /\ pc = "reload"
    /\ ~screen.err
    /\ screen.oos
    /\ pc' # "done"
    /\ screen'.oos

\* C24 (as stated): when the alternative found in the reload-and-verify pass
\* is itself out of stock, the search goes on inside the same pass.
C24_SearchStaysInPass ==
    [][AlternativeAlsoOutOfStock => pc' = "reload"]_vars

\* C24 (amended): when the alternative found in the reload-and-verify pass
\* is itself out of stock, the pass ends with "continue": the loop is back at
\* its while test with the counter and the current price as they were, and the
\* step from the while test consumes one iteration, or starts the final pass
\* when the cap is reached.
C24_ReentersOuterLoop ==
    [][/\ AlternativeAlsoOutOfStock =>
            (pc' = "loop" /\ iteration' = iteration /\ current_price' = current_price)
       /\ pc = "loop" =>
            IF iteration < max_iterations
            THEN iteration' = iteration + 1 /\ pc' \in {"body", "done"}
            ELSE iteration' = iteration /\ pc' = "final"]_vars

\* The second iteration has begun on the out-of-stock alternative that the
\* first iteration's reload-and-verify pass tapped.
C24_Witness ==
    /\ pc = "body"
    /\ iteration = 2
    /\ screen.oos
    /\ steps = <<"normal_reload", "rv_oos_tap">>


\* The price the reload-and-verify pass of the normal branch returns on a
\* reloaded screen without error and in stock (lines 856-868).
ReloadPassPrice ==
    IF screen.price # NoPrice /\ screen.price # current_price
    THEN screen.price ELSE current_price

\* C25 (as stated): the final pass after the iteration cap does what the
\* normal branch's reload-and-verify pass does on the same screen: the error
\* check comes before the stock check, and a screen without error and in
\* stock returns SUCCESS with the price read again from it.
C25_FinalPassLikeReloadPass ==
    [][pc = "final" =>
          /\ screen.err => exit_site' = "final_err"
          /\ (~screen.err /\ ~screen.oos) =>
                (outcome' = "SUCCESS" /\ ret_price' = ReloadPassPrice)]_vars

\* C25 (amended): the final pass has a structure of its own: it always
\* returns and never continues the loop, checks stock before error, reads no
\* price again, and reports the global lowest price (as lowered by its own
\* search); a screen without error and in stock gives SUCCESS.
C25_FinalPassOwnStructure ==
    [][pc = "final" =>
          /\ pc' = "done"
          /\ current_price' = current_price
          /\ ret_price' = GLOBAL_LOWEST_PRICE'
          /\ exit_site' = IF screen.oos THEN "final_oos"
                          ELSE IF screen.err THEN "final_err"
                          ELSE "final"
          /\ (~screen.err /\ ~screen.oos) =>
                (outcome' = "SUCCESS" /\ UNCHANGED <<screen, GLOBAL_LOWEST_PRICE>>)]_vars

\* The final pass returned SUCCESS on a screen that shows another price than
\* the one it reports.
C25_Witness ==
    /\ pc = "done"
    /\ exit_site = "final"
    /\ outcome = "SUCCESS"
    /\ screen.price # NoPrice
    /\ ret_price # screen.price


\* C26: on a reloaded page without error and in stock the reload-and-verify
\* pass reads the price again; a known price that differs from the current
\* price becomes the current price, and the global lowest price is lowered to
\* it when it is smaller; the loop returns SUCCESS with the current price so
\* obtained (unchanged when the price read is unknown or equal).
C26_VerifiedPriceOnSuccess ==
    [][(pc = "reload" /\ ~screen.err /\ ~screen.oos) =>
          LET reloaded_price == screen.price
              adopted == reloaded_price # NoPrice /\ reloaded_price # current_price
          IN  /\ pc' = "done"
              /\ outcome' = "SUCCESS"
              /\ current_price' = IF adopted THEN reloaded_price ELSE current_price
              /\ ret_price' = current_price'
              /\ GLOBAL_LOWEST_PRICE' =
                    IF adopted /\ (GLOBAL_LOWEST_PRICE = NoPrice
                                      \/ reloaded_price < GLOBAL_LOWEST_PRICE)
                    THEN reloaded_price ELSE GLOBAL_LOWEST_PRICE
              /\ UNCHANGED screen]_vars

\* The reloaded page showed a lower price than the one the iteration had
\* read: it was adopted, returned with SUCCESS, and is the global lowest.
C26_Witness ==
    /\ pc = "done"
    /\ exit_site = "rv"
    /\ outcome = "SUCCESS"
    /\ ret_price = screen.price
    /\ ret_price < PRICE_CHECK_HISTORY[Len(PRICE_CHECK_HISTORY)]
    /\ GLOBAL_LOWEST_PRICE = ret_price


\* C27: in the out-of-stock branch a step that taps the find-available
\* oracle's answer continues the loop with the next iteration.
C27_OracleTapContinues ==
    [][(pc = "body" /\ tap_calls' # << >>
          /\ tap_calls'[1] \in {"oracle_click", "oracle_click_raised"})
       => pc' = "loop"]_vars

\* The oracle tap while every price compared is a number: the step that taps
\* the oracle's answer lowers the global lowest price at most and continues
C27_NumericOracleTap ==
    [][steps' = Append(steps, "oos_oracle_tap")
       => /\ pc' = "loop"
          /\ \/ GLOBAL_LOWEST_PRICE' = GLOBAL_LOWEST_PRICE
             \/ GLOBAL_LOWEST_PRICE = NoPrice
             \/ GLOBAL_LOWEST_PRICE' < GLOBAL_LOWEST_PRICE]_vars

\* C30: the adb tap is made only directly after a device.click that raised,
\* in the search and in the out-of-stock branch alike.
C30_AdbTapOnlyAfterRaise ==
    \A i \in DOMAIN tap_calls :
       /\ tap_calls[i] = "oracle_adb" => (i > 1 /\ tap_calls[i - 1] = "oracle_click_raised")
       /\ tap_calls[i] = "search_adb" => (i > 1 /\ tap_calls[i - 1] = "search_click_raised")

\* C14: a search that tapped a candidate returns (True, the candidate's
\* price), whatever the global lowest price holds.
C14_TappedHitIsReturned ==
    ss_tap # 0 => (ss_found /\ ss_new_price = ss_products[ss_tap].price)


C29_BoundedStepsAndCaptures ==
    /\ scroll_num \in 0..14
    /\ ss_swipes <= 15
    /\ ss_swipes \in {scroll_num, scroll_num + 1}
    /\ ss_captured \subseteq {0, 2, 4, 6, 8, 10, 12, 14}
    /\ Cardinality(ss_captured) <= 8
    /\ \A n \in ss_captured : n + 1 \notin ss_captured

\* a search that runs to its last step: 15 swipes and 8 captures
C29_Witness ==
    /\ pc = "ret"
    /\ ~ss_found
    /\ ss_last = "moved"
    /\ ss_swipes = 15
    /\ ss_captured = {0, 2, 4, 6, 8, 10, 12, 14}


\* the exits of the button search of add_to_cart_ui_automator
ButtonSites == {"go_to_cart", "add_to_cart", "fallback"}

GoEntries == {"go_to_cart", "go_to_cart_raised"}
AddEntries == {"add_to_cart", "add_to_cart_raised"}

\* C31 as stated: after a passed re-verification the finalizer makes one cart
\* action and exits 0: the go-to-cart tap when such a text exists, without
\* trying add-to-cart; otherwise the first add-to-cart text; otherwise the
\* blind tap.
C31_OneCartActionByPriority ==
    main_site \in ButtonSites =>
        /\ exit_code = 0
        /\ Len(cart_taps) = 1
        /\ cart_taps[1] = IF main_site = "fallback" THEN "blind" ELSE main_site

\* C31: the finalizer exits 0 after exactly one click that returned, which is
\* its last; the clicks before it all raised; go-to-cart texts are tried
\* before add-to-cart texts and the blind tap comes last; once a go-to-cart
\* click has returned nothing else is tried; and the page had passed the
\* re-verification.
C31_OneCompletedCartAction ==
    main_site \in ButtonSites =>
        /\ exit_code = 0
        /\ outcome = "SUCCESS" /\ ~screen.err /\ ~screen.oos
        /\ Len(cart_taps) >= 1
        /\ cart_taps[Len(cart_taps)] = IF main_site = "fallback" THEN "blind" ELSE main_site
        /\ \A i \in 1..(Len(cart_taps) - 1) :
              cart_taps[i] \in {"go_to_cart_raised", "add_to_cart_raised"}
        /\ \A i, j \in DOMAIN cart_taps :
              (cart_taps[i] \in AddEntries /\ cart_taps[j] \in GoEntries) => j < i
        /\ Cardinality({i \in DOMAIN cart_taps : cart_taps[i] \in GoEntries})
              <= NumGoToCartTexts
        /\ Cardinality({i \in DOMAIN cart_taps : cart_taps[i] \in AddEntries})
              <= NumAddToCartTexts

\* a go-to-cart text exists but its click raises; the add-to-cart text found
\* next is clicked and the process exits 0
C31_Witness ==
    /\ main_pc = "exited"
    /\ main_site = "add_to_cart"
    /\ exit_code = 0
    /\ cart_taps = <<"go_to_cart_raised", "add_to_cart">>


\* C32: an iteration that reads no price goes on with the global lowest
\* price when one is set and with 0 otherwise; that value makes the
\* fingerprint, is appended to the price history unless the fingerprint was
\* visited (then the loop returns SUCCESS with it), and is the price the
\* search is called with: an error-page search from it taps only a candidate
\* below it.
C32_UnknownPriceSubstituted ==
    /\ [][(pc = "loop" /\ iteration' = iteration + 1 /\ screen.price = NoPrice) =>
            LET price == IF GLOBAL_LOWEST_PRICE # NoPrice THEN GLOBAL_LOWEST_PRICE ELSE 0
                fp == Fingerprint(screen.title, price)
            IN  /\ current_price' = price
                /\ IF fp \in VISITED_PRODUCTS
                   THEN /\ pc' = "done" /\ outcome' = "SUCCESS" /\ ret_price' = price
                        /\ UNCHANGED <<VISITED_PRODUCTS, PRICE_CHECK_HISTORY>>
                   ELSE /\ pc' = "body"
                        /\ VISITED_PRODUCTS' = VISITED_PRODUCTS \cup {fp}
                        /\ PRICE_CHECK_HISTORY' = Append(PRICE_CHECK_HISTORY, price)]_vars
    /\ [][(pc = "body" /\ screen.price = NoPrice /\ screen.err) =>
            IF pc' = "loop"
            THEN GLOBAL_LOWEST_PRICE' # NoPrice /\ GLOBAL_LOWEST_PRICE' < current_price
            ELSE pc' = "done" /\ outcome' = "FAILURE" /\ ret_price' = current_price]_vars

\* the second screen shows no price: the iteration goes on with the global
\* lowest price, which is in the history
C32_Witness ==
    /\ pc = "body"
    /\ screen.price = NoPrice
    /\ current_price > 0
    /\ current_price = GLOBAL_LOWEST_PRICE
    /\ Len(PRICE_CHECK_HISTORY) = 2
    /\ PRICE_CHECK_HISTORY[2] = current_price


\* C33: GLOBAL_LOWEST_PRICE, whenever set, is a positive price, and every
\* price returned with SUCCESS is positive: the placeholder 0 of an unknown
\* price is never recorded as a price.
C33_PlaceholderNeverRecorded ==
    /\ GLOBAL_LOWEST_PRICE # NoPrice => GLOBAL_LOWEST_PRICE > 0
    /\ (pc = "done" /\ outcome = "SUCCESS") => ret_price > 0


\* C34: a cart tap is made only after process_product_page_loop has returned
\* SUCCESS and the re-check of the page has passed; whenever a cart tap was
\* made the loop has ended in SUCCESS on a page without error and in stock.
C34_CartOnlyAfterVerifiedSuccess ==
    cart_taps # << >> =>
        /\ pc = "done"
        /\ outcome = "SUCCESS"
        /\ ~screen.err
        /\ ~screen.oos


\* C35: a step that returns FAILURE starts on a screen that shows an error or
\* is out of stock, and its search gave no usable alternative: nothing was
\* tapped, or (final pass) the page the tap opened failed the same check
\* again.
C35_FailureOnlyAfterPositiveCheck ==
    [][(pc # "done" /\ pc' = "done" /\ outcome' = "FAILURE") =>
          /\ screen.err \/ screen.oos
          /\ \/ screen' = screen
             \/ /\ pc = "final"
                /\ IF screen.oos THEN screen'.oos ELSE screen'.err]_vars

\* the final pass taps an alternative for a page that is out of stock, the
\* alternative is out of stock too, and the loop returns FAILURE
C35_Witness ==
    /\ pc = "done"
    /\ outcome = "FAILURE"
    /\ exit_site = "final_oos"
    /\ ~stock_ok
    /\ screen.oos
    /\ GLOBAL_LOWEST_PRICE # NoPrice
    /\ ret_price = GLOBAL_LOWEST_PRICE
    /\ GLOBAL_LOWEST_PRICE < min_seen


\* a step that returns FAILURE starts on a screen that shows an error or is
\* out of stock, whatever the global lowest price holds
FailureNeedsPositiveCheck ==
    [][(pc # "done" /\ pc' = "done" /\ outcome' = "FAILURE") =>
          (screen.err \/ screen.oos)]_vars


\* C36: a search that returns found = True has delivered a tap, by
\* device.click or by the adb tap after a click that raised; when both fail
\* the search does not return found = True and the global lowest price is
\* not lowered.
C36_FoundMeansTapDelivered ==
    (pc = "ret" /\ ss_found) =>
        tap_calls \in {<<"search_click">>, <<"search_click_raised", "search_adb">>}


ResultTiedToInput ==
    pc = "ret" =>
       IF ss_found
       THEN /\ ss_new_price < ss_price
            /\ GLOBAL_LOWEST_PRICE # NoPrice
            /\ GLOBAL_LOWEST_PRICE <= ss_new_price
       ELSE ss_new_price = ss_price

C38_ResultTiedToInput ==
    /\ []ResultTiedToInput
    /\ [][UNCHANGED <<VISITED_PRODUCTS, PRICE_CHECK_HISTORY>>]_vars

C38_Witness ==
    /\ pc = "ret"
    /\ ss_found
    /\ ss_price = MaxPrice
    /\ ss_new_price < ss_price
    /\ GLOBAL_LOWEST_PRICE < ss_new_price


\* C39: starting from an empty RunState, at every iteration boundary and at
\* every return of the loop PRICE_CHECK_HISTORY has as many entries as
\* VISITED_PRODUCTS has elements, and at most max_iterations of them.
C39_HistoryMatchesVisited ==
    /\ Len(PRICE_CHECK_HISTORY) = Cardinality(VISITED_PRODUCTS)
    /\ Len(PRICE_CHECK_HISTORY) <= max_iterations

C39_Witness ==
    /\ pc = "done"
    /\ exit_site = "cycle"
    /\ iteration = max_iterations
    /\ Len(PRICE_CHECK_HISTORY) = 2
    /\ Cardinality(VISITED_PRODUCTS) = 2

====
